---------------------------- MODULE Spec2Model ----------------------------
(***************************************************************************)
(* NIP-26 delegation tags of nostr-types (src/types/delegation.rs):        *)
(* the conditions language (Condition, Conditions), the delegation token,  *)
(* signing and verification, and the DelegationTag with its JSON codec.    *)
(*                                                                         *)
(* Strings are TLA+ strings; a character is a string of length 1.          *)
(* u64 is narrowed to U64Bits bits (TLC's integers have 32), with the      *)
(* overflow checks of u64::from_str kept.  Keys are narrowed to KeyLen     *)
(* bytes.  Schnorr signatures and SHA-256 are symbolic: a signature names  *)
(* its signer and the digest it was made over, a digest names its input.   *)
(***************************************************************************)
EXTENDS Integers, Sequences, FiniteSets, TLC

VARIABLES
    tag,      \* the DelegationTag under consideration, or NoTag
    origin,   \* how tag was obtained: the constructor and its arguments
    wire,     \* the JSON text last produced by as_json, or NoWire
    call      \* the last call: its operation, arguments and result

vars == <<tag, origin, wire, call>>

(***************************************************************************)
(* Bounds of the model.                                                    *)
(***************************************************************************)
U64Bits == 8
MaxConds == 3
NumKeys == 2
KeyLen == 1
MaxSegs == 2
MaxArrayLen == 5

U64_MAX == 2^U64Bits - 1

(***************************************************************************)
(* Result<T, E> and Option<T>.                                             *)
(***************************************************************************)
Ok(v) == [ok |-> TRUE, v |-> v]
Err(e) == [ok |-> FALSE, err |-> e]
Unit == "()"

\* DelegationError (delegation.rs 16-38); ValidationError (42-55) is the
\* detail of ConditionsValidation.
DelegationError(kind, detail) == [kind |-> kind, detail |-> detail]
SigningError == DelegationError("SigningError", "")
ConditionsParseInvalidCondition == DelegationError("ConditionsParseInvalidCondition", "")
ConditionsParseNumeric(e) == DelegationError("ConditionsParseNumeric", e)
ConditionsValidation(e) == DelegationError("ConditionsValidation", e)
DelegationTagParseJson == DelegationError("DelegationTagParseJson", "")
DelegationTagParse == DelegationError("DelegationTagParse", "")
KeyError(e) == DelegationError("Key", e)

ValidationError == {"InvalidSignature", "InvalidKind", "CreatedTooEarly", "CreatedTooLate"}

(***************************************************************************)
(* Characters and strings.                                                 *)
(***************************************************************************)
CharAt(s, i) == SubSeq(s, i, i)
DropFirst(s, n) == SubSeq(s, n + 1, Len(s))
TakeFirst(s, n) == SubSeq(s, 1, n)

DecDigits == "0123456789"
IsDecDigit(c) == \E i \in 1..10 : CharAt(DecDigits, i) = c
DecDigitValue(c) == (CHOOSE i \in 1..10 : CharAt(DecDigits, i) = c) - 1

\* str::strip_prefix: Some(rest) when s starts with p.
starts_with(s, p) == Len(s) >= Len(p) /\ TakeFirst(s, Len(p)) = p
strip_prefix(s, p) == DropFirst(s, Len(p))

\* str::split(sep): the segments between the separators, empty ones kept.
RECURSIVE split(_, _)
split(s, sep) ==
    LET hits == {i \in 1..Len(s) : CharAt(s, i) = sep}
    IN IF hits = {} THEN <<s>>
       ELSE LET i == CHOOSE j \in hits : \A k \in hits : j <= k
            IN <<TakeFirst(s, i - 1)>> \o split(DropFirst(s, i), sep)

\* [String]::join(sep)
RECURSIVE join(_, _)
join(parts, sep) ==
    IF Len(parts) = 0 THEN ""
    ELSE IF Len(parts) = 1 THEN parts[1]
    ELSE parts[1] \o sep \o join(Tail(parts), sep)

(***************************************************************************)
(* u64::from_str and the {n} formatting of a u64.                          *)
(***************************************************************************)
\* The digit loop of from_str_radix: InvalidDigit for a character that is
\* no digit, PosOverflow when checked_mul or checked_add overflows.
RECURSIVE u64_digits(_, _)
u64_digits(ds, acc) ==
    IF ds = "" THEN Ok(acc)
    ELSE LET c == CharAt(ds, 1)
         IN IF ~IsDecDigit(c) THEN Err("InvalidDigit")
            ELSE IF acc * 10 > U64_MAX THEN Err("PosOverflow")
            ELSE IF acc * 10 + DecDigitValue(c) > U64_MAX THEN Err("PosOverflow")
            ELSE u64_digits(DropFirst(ds, 1), acc * 10 + DecDigitValue(c))

\* u64::from_str: Empty for "", a lone sign is InvalidDigit, a leading "+"
\* is skipped, a leading "-" is no digit of an unsigned type.
u64_from_str(src) ==
    IF src = "" THEN Err("Empty")
    ELSE IF src = "+" \/ src = "-" THEN Err("InvalidDigit")
    ELSE IF CharAt(src, 1) = "+" THEN u64_digits(DropFirst(src, 1), 0)
    ELSE u64_digits(src, 0)

\* Display for u64: the decimal digits, no sign, no leading zeros.
RECURSIVE u64_to_string(_)
u64_to_string(n) ==
    IF n < 10 THEN CharAt(DecDigits, n + 1)
    ELSE u64_to_string(n \div 10) \o CharAt(DecDigits, (n % 10) + 1)

(***************************************************************************)
(* Condition, Conditions, EventProperties.                                 *)
(***************************************************************************)
Kind(k) == [variant |-> "Kind", n |-> k]
CreatedBefore(t) == [variant |-> "CreatedBefore", n |-> t]
CreatedAfter(t) == [variant |-> "CreatedAfter", n |-> t]

EventProperties_new(event_kind, created_time) ==
    [kind |-> event_kind, created_time |-> created_time]

\* Mutant: the bounds are inclusive (`>` and `<` for `>=` and `<=`).
Condition_evaluate_inclusive(self, ep) ==
    IF self.variant = "Kind" /\ ep.kind # self.n THEN Err("InvalidKind")
    ELSE IF self.variant = "CreatedBefore" /\ ep.created_time > self.n
        THEN Err("CreatedTooLate")
    ELSE IF self.variant = "CreatedAfter" /\ ep.created_time < self.n
        THEN Err("CreatedTooEarly")
    ELSE Ok(Unit)

\* Mutant: the test of CreatedAfter is the wrong way round.
Condition_evaluate_flipped(self, ep) ==
    IF self.variant = "Kind" /\ ep.kind # self.n THEN Err("InvalidKind")
    ELSE IF self.variant = "CreatedBefore" /\ ep.created_time >= self.n
        THEN Err("CreatedTooLate")
    ELSE IF self.variant = "CreatedAfter" /\ ep.created_time >= self.n
        THEN Err("CreatedTooEarly")
    ELSE Ok(Unit)

\* Condition::evaluate
Condition_evaluate(self, ep) ==
    IF self.variant = "Kind" /\ ep.kind # self.n THEN Err("InvalidKind")
    ELSE IF self.variant = "CreatedBefore" /\ ep.created_time >= self.n
        THEN Err("CreatedTooLate")
    ELSE IF self.variant = "CreatedAfter" /\ ep.created_time <= self.n
        THEN Err("CreatedTooEarly")
    ELSE Ok(Unit)

\* ToString for Condition
Condition_to_string(self) ==
    IF self.variant = "Kind" THEN "kind=" \o u64_to_string(self.n)
    ELSE IF self.variant = "CreatedBefore" THEN "created_at<" \o u64_to_string(self.n)
    ELSE "created_at>" \o u64_to_string(self.n)

\* The `?` on u64::from_str inside Condition::from_str: the ParseIntError
\* becomes ConditionsParseNumeric.
Condition_parsed(variant, n) ==
    IF n.ok THEN Ok([variant |-> variant, n |-> n.v])
    ELSE Err(ConditionsParseNumeric(n.err))

\* Mutant: the prefixes of the two time conditions are taken for each other.
Condition_from_str_swapped(s) ==
    IF starts_with(s, "kind=")
        THEN Condition_parsed("Kind", u64_from_str(strip_prefix(s, "kind=")))
    ELSE IF starts_with(s, "created_at<")
        THEN Condition_parsed("CreatedAfter", u64_from_str(strip_prefix(s, "created_at<")))
    ELSE IF starts_with(s, "created_at>")
        THEN Condition_parsed("CreatedBefore", u64_from_str(strip_prefix(s, "created_at>")))
    ELSE Err(ConditionsParseInvalidCondition)

\* FromStr for Condition
Condition_from_str(s) ==
    IF starts_with(s, "kind=")
        THEN Condition_parsed("Kind", u64_from_str(strip_prefix(s, "kind=")))
    ELSE IF starts_with(s, "created_at<")
        THEN Condition_parsed("CreatedBefore", u64_from_str(strip_prefix(s, "created_at<")))
    ELSE IF starts_with(s, "created_at>")
        THEN Condition_parsed("CreatedAfter", u64_from_str(strip_prefix(s, "created_at>")))
    ELSE Err(ConditionsParseInvalidCondition)

\* Conditions::new
Conditions_new == [cond |-> <<>>]

\* Mutant: the loop goes on after a failure and reports the last one.
RECURSIVE evaluate_from_last(_, _, _)
evaluate_from_last(cond, i, ep) ==
    IF i > Len(cond) THEN Ok(Unit)
    ELSE LET r == Condition_evaluate(cond[i], ep)
             rest == evaluate_from_last(cond, i + 1, ep)
         IN IF ~rest.ok THEN rest ELSE r

\* The loop of Conditions::evaluate from index i on: `c.evaluate(ep)?`.
RECURSIVE evaluate_from(_, _, _)
evaluate_from(cond, i, ep) ==
    IF i > Len(cond) THEN Ok(Unit)
    ELSE LET r == Condition_evaluate(cond[i], ep)
         IN IF ~r.ok THEN r ELSE evaluate_from(cond, i + 1, ep)

\* Conditions::evaluate
Conditions_evaluate(self, ep) == evaluate_from(self.cond, 1, ep)

\* Mutant: a condition that occurred before is not written again.
Conditions_to_string_dedup(self) ==
    LET first == {i \in 1..Len(self.cond) :
                     \A j \in 1..(i - 1) : self.cond[j] # self.cond[i]}
        kept == [k \in 1..Cardinality(first) |->
                    CHOOSE i \in first : Cardinality({j \in first : j < i}) = k - 1]
    IN join([k \in 1..Cardinality(first) |-> Condition_to_string(self.cond[kept[k]])], "&")

\* Mutant: the conditions are joined with "," in place of "&".
Conditions_to_string_comma(self) ==
    join([i \in 1..Len(self.cond) |-> Condition_to_string(self.cond[i])], ",")

\* ToString for Conditions
Conditions_to_string(self) ==
    join([i \in 1..Len(self.cond) |-> Condition_to_string(self.cond[i])], "&")

\* collect::<Result<Vec<Condition>, _>>() over map(Condition::from_str):
\* the first Err ends the iteration and is the result.
RECURSIVE collect_conditions(_, _)
\* r is the first segment parsed.
collect_next(r, segments, acc) ==
    IF ~r.ok THEN r ELSE collect_conditions(Tail(segments), Append(acc, r.v))

collect_conditions(segments, acc) ==
    IF Len(segments) = 0 THEN Ok(acc)
    ELSE collect_next(Condition_from_str(segments[1]), segments, acc)

\* The `?` on the collected vector, and Ok(Conditions { cond }).
Conditions_collected(cond) == IF ~cond.ok THEN cond ELSE Ok([cond |-> cond.v])

\* Mutant: the empty text is split like any other.
Conditions_from_str_no_empty(s) ==
    Conditions_collected(collect_conditions(split(s, "&"), <<>>))

\* FromStr for Conditions
Conditions_from_str(s) ==
    IF s = "" THEN Ok(Conditions_new)
    ELSE Conditions_collected(collect_conditions(split(s, "&"), <<>>))

\* The second half of DelegationTag::validate: the stored conditions are
\* parsed again (`?`) and evaluated, a violation mapped into
\* ConditionsValidation.
evaluated(eval_res) ==
    IF ~eval_res.ok THEN Err(ConditionsValidation(eval_res.err)) ELSE Ok(Unit)

evaluate_parsed(conditions_struct, ep) ==
    IF ~conditions_struct.ok THEN conditions_struct
    ELSE evaluated(Conditions_evaluate(conditions_struct.v, ep))

validate_conditions(conditions, ep) ==
    evaluate_parsed(Conditions_from_str(conditions), ep)

(***************************************************************************)
(* Hexadecimal text (the hex crate), keys and signatures.                  *)
(***************************************************************************)
HexDigits == "0123456789abcdef"
HexDigitsUpper == "0123456789ABCDEF"

\* The value of a hexadecimal digit of either case, -1 for any other character.
hex_val(c) ==
    IF \E i \in 1..16 : CharAt(HexDigits, i) = c
        THEN (CHOOSE i \in 1..16 : CharAt(HexDigits, i) = c) - 1
    ELSE IF \E i \in 1..16 : CharAt(HexDigitsUpper, i) = c
        THEN (CHOOSE i \in 1..16 : CharAt(HexDigitsUpper, i) = c) - 1
    ELSE -1

\* hex::encode: two lower-case digits for each byte.
RECURSIVE hex_encode(_)
hex_encode(bytes) ==
    IF Len(bytes) = 0 THEN ""
    ELSE CharAt(HexDigits, (bytes[1] \div 16) + 1)
            \o CharAt(HexDigits, (bytes[1] % 16) + 1)
            \o hex_encode(Tail(bytes))

RECURSIVE hex_pairs(_, _)
hex_pairs(s, acc) ==
    IF s = "" THEN Ok(acc)
    ELSE LET hi == hex_val(CharAt(s, 1))
             lo == hex_val(CharAt(s, 2))
         IN IF hi < 0 \/ lo < 0 THEN Err("InvalidHexCharacter")
            ELSE hex_pairs(DropFirst(s, 2), Append(acc, 16 * hi + lo))

\* hex::decode: OddLength first, then the digits of either case.
hex_decode(s) ==
    IF Len(s) % 2 # 0 THEN Err("OddLength") ELSE hex_pairs(s, <<>>)

\* Errors of crate::Error that are no DelegationError.
HexDecodeError(e) == DelegationError("HexDecode", e)
\* The thread panics: nothing is returned.
Panic(e) == DelegationError("panic", e)

\* The private keys, and PrivateKey::public_key: the x-only public key of a
\* private key, KeyLen bytes, a different one for each private key.
PrivateKeys == 1..NumKeys
PrivateKey_public_key(sk) == [i \in 1..KeyLen |-> (17 * sk + 9 * i) % 256]
PublicKeys == {PrivateKey_public_key(sk) : sk \in PrivateKeys}

\* VerifyingKey::from_bytes: the bytes are the x coordinate of a point of
\* the curve, that is, the public key of some private key.  A slice of
\* another length fails an assertion of generic-array.
VerifyingKey_from_bytes(bytes) ==
    IF Len(bytes) # KeyLen THEN Err(Panic("generic-array length"))
    ELSE IF bytes \in PublicKeys THEN Ok(bytes)
    ELSE Err(KeyError("VerifyingKey::from_bytes"))

\* PublicKey::as_hex_string
PublicKey_as_hex_string(self) == hex_encode(self)

\* PublicKey::try_from_hex_string
key_from_decoded(vec) ==
    IF ~vec.ok THEN Err(HexDecodeError(vec.err)) ELSE VerifyingKey_from_bytes(vec.v)

PublicKey_try_from_hex_string(v) == key_from_decoded(hex_decode(v))

\* A Schnorr signature names the key that made it and the digest it signs.
Schnorr_sign(sk, id) == [signer |-> PrivateKey_public_key(sk), digest |-> id]

\* PrivateKey::sign_id: the signature of the digest, or an error when the
\* signer refuses.
PrivateKey_sign_id(sk, id, signer_ok) ==
    IF signer_ok THEN Ok(Schnorr_sign(sk, id)) ELSE Err("signature::Error")

\* Signature::as_hex_string: the hexadecimal text of the signature bytes,
\* written here as the term the signature stands for.
Signature_as_hex_string(sig) ==
    "sig(" \o hex_encode(sig.signer) \o "," \o sig.digest.sha256 \o ")"

\* The signature of the text inner between "sig(" and ")", parts its
\* pieces between commas: the signer and the signed text.
signature_signed(signer, text) ==
    IF ~signer.ok THEN Err(HexDecodeError("Signature::try_from_hex_string"))
    ELSE Ok([signer |-> signer.v, digest |-> [sha256 |-> text]])

signature_of(inner, parts) ==
    IF Len(parts) < 2 THEN Err(HexDecodeError("Signature::try_from_hex_string"))
    ELSE signature_signed(hex_decode(parts[1]), DropFirst(inner, Len(parts[1]) + 1))

\* Signature::try_from_hex_string: the signature whose text this is, an
\* error for any other text.
Signature_try_from_hex_string(v) ==
    IF ~(starts_with(v, "sig(") /\ Len(v) >= 5 /\ CharAt(v, Len(v)) = ")")
        THEN Err(HexDecodeError("Signature::try_from_hex_string"))
    ELSE signature_of(SubSeq(v, 5, Len(v) - 1), split(SubSeq(v, 5, Len(v) - 1), ","))

(***************************************************************************)
(* The delegation token, signing and verification.                         *)
(***************************************************************************)
DELEGATION_KEYWORD == "delegation"

\* delegation_token
delegation_token(delegatee_pubkey, conditions) ==
    "nostr:" \o DELEGATION_KEYWORD \o ":"
        \o PublicKey_as_hex_string(delegatee_pubkey) \o ":" \o conditions

\* hash_256: the digest names its input.
hash_256(input) == [sha256 |-> input]

\* sign_delegation
\* map_err on the signer's result
signing_result(sig) == IF ~sig.ok THEN Err(SigningError) ELSE Ok(sig.v)

sign_delegation(delegator_privkey, delegatee_pubkey, conditions, signer_ok) ==
    LET unhashed_token == delegation_token(delegatee_pubkey, conditions)
        hashed_token == hash_256(unhashed_token)
    IN signing_result(PrivateKey_sign_id(delegator_privkey, hashed_token, signer_ok))

\* VerifyingKey::verify(msg, signature): the message is hashed, and the
\* signature must be one this key made over that digest.
VerifyingKey_verify(pubkey, msg, signature) ==
    IF signature.signer = pubkey /\ signature.digest = hash_256(msg)
    THEN Ok(Unit) ELSE Err(KeyError("signature::Error"))

\* Mutant: the token is built with the delegator's key in the place of the
\* delegatee's.
verify_delegation_signature_own_key(delegator_pubkey, signature, delegatee_pubkey, conditions) ==
    LET unhashed_token == delegation_token(delegator_pubkey, conditions)
    IN VerifyingKey_verify(delegator_pubkey, unhashed_token, signature)

\* verify_delegation_signature
verify_delegation_signature(delegator_pubkey, signature, delegatee_pubkey, conditions) ==
    LET unhashed_token == delegation_token(delegatee_pubkey, conditions)
    IN VerifyingKey_verify(delegator_pubkey, unhashed_token, signature)

(***************************************************************************)
(* JSON text (serde_json): Value, its compact text, and the parser.        *)
(***************************************************************************)
JsonNull == [t |-> "null"]
JsonBool(b) == [t |-> "bool", b |-> b]
JsonNumber(lexeme) == [t |-> "number", n |-> lexeme]
JsonString(s) == [t |-> "string", s |-> s]
JsonArray(a) == [t |-> "array", a |-> a]
JsonObject(members) == [t |-> "object", o |-> members]

\* The least element of a non-empty set of positions.
FirstOf(S) == CHOOSE i \in S : \A j \in S : i <= j

\* The escapes of a string: the quote, the backslash, line feed and tab.
RECURSIVE json_escape(_)
json_escape(s) ==
    LET special == {i \in 1..Len(s) : CharAt(s, i) \in {"\"", "\\", "\n", "\t"}}
        i == FirstOf(special)
        c == CharAt(s, i)
        e == IF c = "\"" THEN "\\\""
             ELSE IF c = "\\" THEN "\\\\"
             ELSE IF c = "\n" THEN "\\n"
             ELSE "\\t"
    IN IF special = {} THEN s
       ELSE TakeFirst(s, i - 1) \o e \o json_escape(DropFirst(s, i))

json_string(s) == "\"" \o json_escape(s) \o "\""

\* Value::to_string: the compact text, no whitespace.
RECURSIVE Value_to_string(_)
Value_to_string(v) ==
    IF v.t = "null" THEN "null"
    ELSE IF v.t = "bool" THEN (IF v.b THEN "true" ELSE "false")
    ELSE IF v.t = "number" THEN v.n
    ELSE IF v.t = "string" THEN json_string(v.s)
    ELSE IF v.t = "array"
        THEN "[" \o join([i \in 1..Len(v.a) |-> Value_to_string(v.a[i])], ",") \o "]"
    ELSE "{" \o join([i \in 1..Len(v.o) |->
                        json_string(v.o[i].k) \o ":" \o Value_to_string(v.o[i].v)], ",")
            \o "}"

JsonWhitespace == {" ", "\n", "\t", "\r"}
Parsed(v, rest) == [ok |-> TRUE, v |-> v, rest |-> rest]
NotParsed == [ok |-> FALSE]

RECURSIVE skip_ws(_)
skip_ws(s) ==
    IF s # "" /\ CharAt(s, 1) \in JsonWhitespace THEN skip_ws(DropFirst(s, 1)) ELSE s

\* The number of decimal digits s starts with.
RECURSIVE leading_digits(_)
leading_digits(s) ==
    IF s # "" /\ IsDecDigit(CharAt(s, 1)) THEN 1 + leading_digits(DropFirst(s, 1)) ELSE 0

\* A string after its opening quote, up to the closing one: the text up
\* to the next quote, backslash or control character, then that character.
\* Of the escapes, \b, \f and \u are not read (no input has them).
RECURSIVE parse_string(_, _)
parse_string(s, acc) ==
    LET special == {i \in 1..Len(s) : CharAt(s, i) \in {"\"", "\\", "\n", "\t", "\r"}}
        i == FirstOf(special)
        c == CharAt(s, i)
        e == CharAt(s, i + 1)
        u == IF e = "n" THEN "\n"
             ELSE IF e = "t" THEN "\t"
             ELSE IF e = "r" THEN "\r"
             ELSE e
    IN IF special = {} THEN NotParsed
       ELSE IF c = "\"" THEN Parsed(acc \o TakeFirst(s, i - 1), DropFirst(s, i))
       ELSE IF c # "\\" THEN NotParsed
       ELSE IF Len(s) < i + 1 THEN NotParsed
       ELSE IF e \in {"\"", "\\", "/", "n", "t", "r"}
            THEN parse_string(DropFirst(s, i + 1), acc \o TakeFirst(s, i - 1) \o u)
       ELSE NotParsed

\* The parts of a number: -? (0 | [1-9] digit*) (. digit+)? ([eE] [+-]? digit+)?
\* Each is the number of characters the part takes at the start of s, -1
\* when the part is begun and not complete.
some_digits(n) == IF n = 0 THEN -1 ELSE n
int_part(s) == IF starts_with(s, "0") THEN 1 ELSE some_digits(leading_digits(s))
after_mark(marks, digits) == IF digits < 0 THEN -1 ELSE marks + digits
frac_part(s) ==
    IF starts_with(s, ".") THEN after_mark(1, some_digits(leading_digits(DropFirst(s, 1))))
    ELSE 0
exp_part(s) ==
    IF ~(starts_with(s, "e") \/ starts_with(s, "E")) THEN 0
    ELSE IF starts_with(DropFirst(s, 1), "+") \/ starts_with(DropFirst(s, 1), "-")
        THEN after_mark(2, some_digits(leading_digits(DropFirst(s, 2))))
    ELSE after_mark(1, some_digits(leading_digits(DropFirst(s, 1))))

\* The number that takes the n first characters of s, none when n < 0.
number_of(s, n) ==
    IF n < 0 THEN NotParsed ELSE Parsed(JsonNumber(TakeFirst(s, n)), DropFirst(s, n))
with_exp(s, n, e) == number_of(s, IF e < 0 THEN -1 ELSE n + e)
with_frac(s, n, f) ==
    IF f < 0 THEN NotParsed ELSE with_exp(s, n + f, exp_part(DropFirst(s, n + f)))
with_int(s, n, i) ==
    IF i < 0 THEN NotParsed ELSE with_frac(s, n + i, frac_part(DropFirst(s, n + i)))
with_sign(s, n) == with_int(s, n, int_part(DropFirst(s, n)))

parse_number(s) == with_sign(s, IF starts_with(s, "-") THEN 1 ELSE 0)

RECURSIVE parse_value(_)
RECURSIVE parse_elements(_, _)
RECURSIVE parse_members(_, _)

\* What follows an element e: "," and the next elements, or "]".
element_end(s1, e, acc) ==
    IF starts_with(s1, ",") THEN parse_elements(DropFirst(s1, 1), Append(acc, e.v))
    ELSE IF starts_with(s1, "]") THEN Parsed(JsonArray(Append(acc, e.v)), DropFirst(s1, 1))
    ELSE NotParsed

after_element(e, acc) == IF ~e.ok THEN NotParsed ELSE element_end(skip_ws(e.rest), e, acc)

\* The elements of an array after "[" or ",".
parse_elements(s, acc) == after_element(parse_value(s), acc)

\* What follows a member k: e, "," and the next members, or "}".
member_end(s2, k, e, acc) ==
    IF starts_with(s2, ",")
        THEN parse_members(DropFirst(s2, 1), Append(acc, [k |-> k.v, v |-> e.v]))
    ELSE IF starts_with(s2, "}")
        THEN Parsed(JsonObject(Append(acc, [k |-> k.v, v |-> e.v])), DropFirst(s2, 1))
    ELSE NotParsed

after_member(k, e, acc) ==
    IF ~e.ok THEN NotParsed ELSE member_end(skip_ws(e.rest), k, e, acc)

\* The value of a member after its key: ":" and a value.
member_value(s1, k, acc) ==
    IF ~starts_with(s1, ":") THEN NotParsed
    ELSE after_member(k, parse_value(DropFirst(s1, 1)), acc)

after_key(k, acc) == IF ~k.ok THEN NotParsed ELSE member_value(skip_ws(k.rest), k, acc)

member_at(s0, acc) ==
    IF ~starts_with(s0, "\"") THEN NotParsed
    ELSE after_key(parse_string(DropFirst(s0, 1), ""), acc)

\* The members of an object after "{" or ",".
parse_members(s, acc) == member_at(skip_ws(s), acc)

string_value(r) == IF r.ok THEN Parsed(JsonString(r.v), r.rest) ELSE NotParsed

\* An array after "[" and whitespace, an object after "{" and whitespace.
array_at(s1) ==
    IF starts_with(s1, "]") THEN Parsed(JsonArray(<<>>), DropFirst(s1, 1))
    ELSE parse_elements(s1, <<>>)
object_at(s1) ==
    IF starts_with(s1, "}") THEN Parsed(JsonObject(<<>>), DropFirst(s1, 1))
    ELSE parse_members(s1, <<>>)

\* A value at the start of s0, which starts with no whitespace.
value_at(s0) ==
    IF starts_with(s0, "null") THEN Parsed(JsonNull, DropFirst(s0, 4))
    ELSE IF starts_with(s0, "true") THEN Parsed(JsonBool(TRUE), DropFirst(s0, 4))
    ELSE IF starts_with(s0, "false") THEN Parsed(JsonBool(FALSE), DropFirst(s0, 5))
    ELSE IF starts_with(s0, "\"") THEN string_value(parse_string(DropFirst(s0, 1), ""))
    ELSE IF starts_with(s0, "[") THEN array_at(skip_ws(DropFirst(s0, 1)))
    ELSE IF starts_with(s0, "{") THEN object_at(skip_ws(DropFirst(s0, 1)))
    ELSE IF starts_with(s0, "-") \/ (s0 # "" /\ IsDecDigit(CharAt(s0, 1)))
        THEN parse_number(s0)
    ELSE NotParsed

parse_value(s) == value_at(skip_ws(s))

\* One value, whitespace around it, nothing after.
whole_value(r) ==
    IF r.ok /\ skip_ws(r.rest) = "" THEN Ok(r.v) ELSE Err("serde_json::Error")

\* serde_json::from_str::<Value>
serde_json_from_str(s) == whole_value(parse_value(s))

\* Value::as_str().unwrap_or("")
as_str_or_empty(v) == IF v.t = "string" THEN v.s ELSE ""

(***************************************************************************)
(* DelegationTag.                                                          *)
(***************************************************************************)
DelegationTag(delegator_pubkey, conditions, signature) ==
    [delegator_pubkey |-> delegator_pubkey, conditions |-> conditions,
     signature |-> signature]

\* DelegationTag::create
\* The body of create on the results of its two calls: the `?` on the
\* signature, then the `?` on the parsed conditions, then the tag.
created(delegator_privkey, signature, conditions_struct) ==
    IF ~signature.ok THEN signature
    ELSE IF ~conditions_struct.ok THEN conditions_struct
    ELSE Ok(DelegationTag(PrivateKey_public_key(delegator_privkey),
                          Conditions_to_string(conditions_struct.v),
                          signature.v))

create(delegator_privkey, delegatee_pubkey, conditions_string, signer_ok) ==
    created(delegator_privkey,
            sign_delegation(delegator_privkey, delegatee_pubkey, conditions_string, signer_ok),
            Conditions_from_str(conditions_string))

\* Mutant: the conditions are evaluated before the signature is verified.
validate_conditions_first(self, delegatee_pubkey, event_properties) ==
    IF ~validate_conditions(self.conditions, event_properties).ok
    THEN validate_conditions(self.conditions, event_properties)
    ELSE IF ~verify_delegation_signature(self.delegator_pubkey, self.signature,
                                         delegatee_pubkey, self.conditions).ok
    THEN Err(ConditionsValidation("InvalidSignature"))
    ELSE Ok(Unit)

\* DelegationTag::validate
validate(self, delegatee_pubkey, event_properties) ==
    IF ~verify_delegation_signature(self.delegator_pubkey, self.signature,
                                    delegatee_pubkey, self.conditions).ok
    THEN Err(ConditionsValidation("InvalidSignature"))
    ELSE validate_conditions(self.conditions, event_properties)

\* DelegationTag::as_json
as_json(self) ==
    Value_to_string(JsonArray(<<JsonString(DELEGATION_KEYWORD),
                                JsonString(PublicKey_as_hex_string(self.delegator_pubkey)),
                                JsonString(self.conditions),
                                JsonString(Signature_as_hex_string(self.signature))>>))

\* The tag of the three parsed elements: the `?` on each in the order
\* from_json reads them.
from_json_parsed(delegator_pubkey, conditions, signature) ==
    IF ~delegator_pubkey.ok THEN delegator_pubkey
    ELSE IF ~conditions.ok THEN conditions
    ELSE IF ~signature.ok THEN signature
    ELSE Ok(DelegationTag(delegator_pubkey.v,
                          Conditions_to_string(conditions.v),
                          signature.v))

\* The last three elements of the array.
from_json_elements(arr) ==
    from_json_parsed(PublicKey_try_from_hex_string(as_str_or_empty(arr[2])),
                     Conditions_from_str(as_str_or_empty(arr[3])),
                     Signature_try_from_hex_string(as_str_or_empty(arr[4])))

\* Mutant: an array of more than four elements is let through.
from_json_array_at_least(arr) ==
    IF Len(arr) < 4 THEN Err(DelegationTagParse)
    ELSE IF as_str_or_empty(arr[1]) # DELEGATION_KEYWORD THEN Err(DelegationTagParse)
    ELSE from_json_elements(arr)

\* The array checks of from_json: the length and the keyword.
from_json_array(arr) ==
    IF Len(arr) # 4 THEN Err(DelegationTagParse)
    ELSE IF as_str_or_empty(arr[1]) # DELEGATION_KEYWORD THEN Err(DelegationTagParse)
    ELSE from_json_elements(arr)

\* The checks of from_json on the parsed value.
from_json_value(v) ==
    IF ~v.ok THEN Err(DelegationTagParseJson)
    ELSE IF v.v.t # "array" THEN Err(DelegationTagParse)
    ELSE from_json_array(v.v.a)

\* DelegationTag::from_json
from_json(s) == from_json_value(serde_json_from_str(s))

(***************************************************************************)
(* The values the operations are applied to.                               *)
(***************************************************************************)
NoTag == [none |-> "tag"]
NoOrigin == [by |-> "none"]
NoWire == [none |-> "wire"]
NoCall == [op |-> "none"]

\* Bounds of conditions and event fields: the ends of the u64 range and
\* the values of the reference cases.
BoundValues == {0, 50, 100, U64_MAX}
KindValues == {1, 3, 4}
TimeValues == {0, 50, 75, 100, U64_MAX}

ConditionValues ==
    {Kind(k) : k \in KindValues}
        \cup {CreatedBefore(t) : t \in BoundValues}
        \cup {CreatedAfter(t) : t \in BoundValues}

\* Every Conditions of at most MaxConds conditions.
ConditionsValues ==
    {[cond |-> q] : q \in UNION {[1..n -> ConditionValues] : n \in 0..MaxConds}}

EventPropertiesValues ==
    {EventProperties_new(k, t) : k \in KindValues, t \in TimeValues}

\* Condition texts: well-formed ones, ones u64::from_str accepts though
\* they are not what to_string writes, and malformed ones.
SegmentTexts ==
    {"kind=0", "kind=00", "kind=1", "kind=3", "kind=01", "kind=+1",
     "kind=+" \o u64_to_string(U64_MAX + 1), "kind=-1", "kind=", "kind=x",
     "kind=1 ", " kind=1", "kind=__invalid_number__", "__invalid_condition__",
     "kind=" \o u64_to_string(U64_MAX), "kind=" \o u64_to_string(U64_MAX + 1),
     "kind=" \o u64_to_string(U64_MAX * 10),
     "created_at<50", "created_at>100", "created_at<050", "created_at>+100",
     "created_at=50", "created_at<", "created_at", ""}

\* Conditions texts: at most MaxSegs segments joined by "&"; an empty
\* segment gives a leading, trailing or doubled "&".
ConditionsTexts ==
    {join(q, "&") : q \in UNION {[1..n -> SegmentTexts] : n \in 0..MaxSegs}}

\* The conditions texts of the tests and of the reference cases.
ReferenceTexts ==
    {"", "kind=3", "kind=3&kind=4", "created_at<100", "created_at>100",
     "kind=1&created_at>100&created_at<50", "kind=1&created_at>50&created_at<100",
     "kind=01&created_at>050", "kind=+1", "__invalid_condition__&kind=1",
     "kind=__invalid_number__"}

(***************************************************************************)
(* The conditions language on its own: each action is one call of a pure   *)
(* function on arguments drawn from the sets above.                        *)
(***************************************************************************)
CallCondition_evaluate ==
    /\ call = NoCall
    /\ \E c \in ConditionValues, ep \in EventPropertiesValues :
        call' = [op |-> "Condition::evaluate", self |-> c, ep |-> ep,
                 out |-> Condition_evaluate(c, ep)]
    /\ UNCHANGED <<tag, origin, wire>>

CallConditions_evaluate ==
    /\ call = NoCall
    /\ \E cs \in ConditionsValues, ep \in EventPropertiesValues :
        call' = [op |-> "Conditions::evaluate", self |-> cs, ep |-> ep,
                 out |-> Conditions_evaluate(cs, ep)]
    /\ UNCHANGED <<tag, origin, wire>>

CallConditions_to_string ==
    /\ call = NoCall
    /\ \E cs \in ConditionsValues :
        call' = [op |-> "Conditions::to_string", self |-> cs,
                 out |-> Conditions_to_string(cs)]
    /\ UNCHANGED <<tag, origin, wire>>

\* Conditions::from_str(&x.to_string())
CallConditions_round_trip ==
    /\ call = NoCall
    /\ \E cs \in ConditionsValues :
        call' = [op |-> "Conditions::from_str(to_string)", self |-> cs,
                 s |-> Conditions_to_string(cs),
                 out |-> Conditions_from_str(Conditions_to_string(cs))]
    /\ UNCHANGED <<tag, origin, wire>>

CallConditions_from_str ==
    /\ call = NoCall
    /\ \E s \in ConditionsTexts \cup ReferenceTexts :
        call' = [op |-> "Conditions::from_str", s |-> s,
                 out |-> Conditions_from_str(s)]
    /\ UNCHANGED <<tag, origin, wire>>

\* Conditions::from_str(s)?.evaluate(ep), as validate does on the stored text
CallConditions_parse_evaluate ==
    /\ call = NoCall
    /\ \E s \in ReferenceTexts, ep \in EventPropertiesValues :
        call' = [op |-> "Conditions::from_str.evaluate", s |-> s, ep |-> ep,
                 out |-> validate_conditions(s, ep)]
    /\ UNCHANGED <<tag, origin, wire>>

CondInit ==
    /\ tag = NoTag
    /\ origin = NoOrigin
    /\ wire = NoWire
    /\ call = NoCall

CondNext ==
    \/ CallCondition_evaluate
    \/ CallConditions_evaluate
    \/ CallConditions_to_string
    \/ CallConditions_round_trip
    \/ CallConditions_from_str
    \/ CallConditions_parse_evaluate

CondSpec == CondInit /\ [][CondNext]_vars

(***************************************************************************)
(* The inputs of the tag operations.                                       *)
(***************************************************************************)
\* The conditions texts given to create and found in wire strings.
CreateTexts == ReferenceTexts

\* The signature of delegator sk over the token of delegatee pk and text s,
\* as a signer outside this library makes it.
SignatureOver(sk, pk, s) == Schnorr_sign(sk, hash_256(delegation_token(pk, s)))

\* A hexadecimal text in upper case.
RECURSIVE to_uppercase(_)
to_uppercase(s) ==
    IF s = "" THEN ""
    ELSE (IF hex_val(CharAt(s, 1)) >= 0
          THEN CharAt(HexDigitsUpper, hex_val(CharAt(s, 1)) + 1)
          ELSE CharAt(s, 1)) \o to_uppercase(DropFirst(s, 1))

\* The text of an array of the given element texts, with sep between them.
ArrayText(elements, sep) == "[" \o join(elements, sep) \o "]"

\* Wire strings of the 4-element form: any delegator key, any conditions
\* text of CreateTexts, and a signature made over that text as it stands.
WellFormedWires ==
    {ArrayText(<<json_string(DELEGATION_KEYWORD),
                 json_string(PublicKey_as_hex_string(PrivateKey_public_key(sk))),
                 json_string(s),
                 json_string(Signature_as_hex_string(SignatureOver(signer, pk, s)))>>, ",") :
        sk \in PrivateKeys, signer \in PrivateKeys, pk \in PublicKeys, s \in CreateTexts}

BaseKeyText == PublicKey_as_hex_string(PrivateKey_public_key(1))
BaseElements ==
    <<json_string(DELEGATION_KEYWORD),
      json_string(BaseKeyText),
      json_string("kind=1"),
      json_string(Signature_as_hex_string(
          SignatureOver(1, PrivateKey_public_key(NumKeys), "kind=1")))>>

\* JSON values that are no array, and arrays of 0..MaxArrayLen elements:
\* the first ones of BaseElements, then "x" for each further one.
ShapeWires ==
    {"null", "true", "1", "-0.5", json_string(DELEGATION_KEYWORD), "{}",
     "{\"delegation\":[]}"}
    \cup {ArrayText([i \in 1..n |-> IF i <= 4 THEN BaseElements[i] ELSE json_string("x")], ",") :
            n \in (0..MaxArrayLen) \ {4}}

\* 4-element arrays whose first element is not the keyword, the other
\* three well-formed or not.
FirstElementWires ==
    {ArrayText(<<first>> \o rest, ",") :
        first \in {json_string("Delegation"), json_string("delegation "),
                   json_string(""), "1", "null", "true", "[\"delegation\"]", "{}"},
        rest \in {Tail(BaseElements),
                  <<json_string("zz"), "null", json_string("")>>,
                  <<json_string(""), json_string("kind="), "1">>}}

\* 4-element arrays with the keyword and one element that is not what
\* as_json writes.
ElementWires ==
    {ArrayText([BaseElements EXCEPT ![2] = e], ",") :
        e \in {json_string(to_uppercase(BaseKeyText)), json_string("zz"),
               json_string("1"), json_string(""), "null", "1",
               json_string(hex_encode([i \in 1..KeyLen |-> 0])),
               json_string(BaseKeyText \o "00")}}
    \cup {ArrayText([BaseElements EXCEPT ![3] = e], ",") :
        e \in {"null", "1", "[]", "{}", "true", json_string(" kind=1"),
               json_string("kind=1&")}}
    \cup {ArrayText([BaseElements EXCEPT ![4] = e], ",") :
        e \in {json_string(""), "null", "1", json_string("zz"), json_string("sig(zz,)")}}

\* The 4-element form with whitespace, and texts that are no JSON.
LooseWires ==
    {" " \o ArrayText(BaseElements, " , ") \o " ",
     ArrayText(BaseElements, ",\n"),
     "", "[", "[,]", "[1,]", "nul", "[] x", "'delegation'",
     ArrayText(BaseElements, " "),
     "[" \o join(BaseElements, ",")}

WireTexts ==
    WellFormedWires \cup ShapeWires \cup FirstElementWires \cup ElementWires
        \cup LooseWires

\* The events a tag is validated against.
TagEventProperties ==
    {EventProperties_new(k, t) : k \in {1, 3}, t \in {0, 75, U64_MAX}}

(***************************************************************************)
(* The life of a tag: made by create or from_json, then validated,         *)
(* written with as_json and read again.                                    *)
(***************************************************************************)
Create ==
    /\ call = NoCall
    /\ tag = NoTag
    /\ \E sk \in PrivateKeys, pk \in PublicKeys, s \in CreateTexts, signer_ok \in BOOLEAN :
        \E r \in {create(sk, pk, s, signer_ok)} :
           /\ call' = [op |-> "create", delegator_privkey |-> sk,
                       delegatee_pubkey |-> pk, conditions_string |-> s,
                       signer_ok |-> signer_ok, out |-> r]
           /\ tag' = IF r.ok THEN r.v ELSE tag
           /\ origin' = IF r.ok
                        THEN [by |-> "create", delegatee_pubkey |-> pk, s |-> s]
                        ELSE origin
    /\ UNCHANGED wire

FromJson ==
    /\ call = NoCall
    /\ tag = NoTag
    /\ \E s \in WireTexts :
        \E r \in {from_json(s)} :
           /\ call' = [op |-> "from_json", s |-> s, of |-> NoWire, out |-> r]
           /\ tag' = IF r.ok THEN r.v ELSE tag
           /\ origin' = IF r.ok THEN [by |-> "from_json", s |-> s] ELSE origin
    /\ UNCHANGED wire

Validate ==
    /\ tag # NoTag
    /\ \E pk \in PublicKeys, ep \in TagEventProperties :
        call' = [op |-> "validate", delegatee_pubkey |-> pk, ep |-> ep,
                 out |-> validate(tag, pk, ep)]
    /\ UNCHANGED <<tag, origin, wire>>

AsJson ==
    /\ tag # NoTag
    /\ \E s \in {as_json(tag)} :
        /\ wire' = [s |-> s, of |-> tag, by |-> origin.by]
        /\ call' = [op |-> "as_json", out |-> s]
    /\ UNCHANGED <<tag, origin>>

\* from_json of the text as_json wrote
FromJsonWire ==
    /\ wire # NoWire
    /\ \E r \in {from_json(wire.s)} :
          /\ call' = [op |-> "from_json", s |-> wire.s, of |-> wire, out |-> r]
          /\ tag' = IF r.ok THEN r.v ELSE tag
          /\ origin' = IF r.ok THEN [by |-> "from_json", s |-> wire.s] ELSE origin
    /\ UNCHANGED wire

Init ==
    /\ tag = NoTag
    /\ origin = NoOrigin
    /\ wire = NoWire
    /\ call = NoCall

Next ==
    \/ Create
    \/ FromJson
    \/ Validate
    \/ AsJson
    \/ FromJsonWire

Spec == Init /\ [][Next]_vars

(***************************************************************************)
(* What the specification says of a condition, stated apart from the code. *)
(***************************************************************************)
Satisfies(c, ep) ==
    CASE c.variant = "Kind" -> ep.kind = c.n
      [] c.variant = "CreatedBefore" -> ep.created_time < c.n
      [] c.variant = "CreatedAfter" -> ep.created_time > c.n

ViolationOf(c) ==
    CASE c.variant = "Kind" -> "InvalidKind"
      [] c.variant = "CreatedBefore" -> "CreatedTooLate"
      [] c.variant = "CreatedAfter" -> "CreatedTooEarly"

Unsatisfied(cond, ep) == {i \in 1..Len(cond) : ~Satisfies(cond[i], ep)}

\* The violation of the unsatisfied condition of lowest index.
FirstViolation(cond, ep) ==
    ViolationOf(cond[CHOOSE i \in Unsatisfied(cond, ep) :
                        \A j \in Unsatisfied(cond, ep) : i <= j])


\* The conditions a tag stores, as a sequence.
StoredConditions(t) == Conditions_from_str(t.conditions).v.cond

\* The stored signature is one the delegator's key made over the digest of
\* the message of delegatee key pk and the stored conditions string.
SignatureVerifies(t, pk) ==
    /\ t.signature.signer = t.delegator_pubkey
    /\ t.signature.digest.sha256
           = "nostr:delegation:" \o hex_encode(pk) \o ":" \o t.conditions

InvalidSignature == Err(ConditionsValidation("InvalidSignature"))

\* The JSON value of a wire string, and its element i as from_json reads it.
WireValue(s) == serde_json_from_str(s).v
WireElement(s, i) == as_str_or_empty(WireValue(s).a[i])

(***************************************************************************)
(* C1. Signature binding: a tag made by create for delegatee key B,        *)
(* validated with another delegatee key, gives InvalidSignature for every  *)
(* event, also one that violates the conditions: no conditions error is    *)
(* returned in that case.                                                  *)
(***************************************************************************)
C1_OtherDelegatee ==
    /\ call.op = "validate"
    /\ origin.by = "create"
    /\ call.delegatee_pubkey # origin.delegatee_pubkey

C1_SignatureBinding == C1_OtherDelegatee => call.out = InvalidSignature

\* The other delegatee key, and an event that violates the conditions too.
C1_Witness ==
    /\ C1_OtherDelegatee
    /\ Unsatisfied(StoredConditions(tag), call.ep) # {}
    /\ call.out = InvalidSignature

(***************************************************************************)
(* C2. For every conditions text create accepts, the signature of the      *)
(* returned tag is over the message of the delegatee key and the stored    *)
(* (canonical) conditions string: validate with the same delegatee key     *)
(* never gives InvalidSignature, and gives Ok for every event that         *)
(* satisfies all the conditions.                                           *)
(***************************************************************************)
C2_SameDelegatee ==
    /\ call.op = "validate"
    /\ origin.by = "create"
    /\ call.delegatee_pubkey = origin.delegatee_pubkey

C2_CreateSignsStored ==
    C2_SameDelegatee =>
        /\ SignatureVerifies(tag, origin.delegatee_pubkey)
        /\ call.out # InvalidSignature
        /\ (Unsatisfied(StoredConditions(tag), call.ep) = {} => call.out.ok)

(***************************************************************************)
(* C3. validate is all-or-nothing: Ok iff the stored signature verifies    *)
(* for the supplied delegatee key and the stored conditions string, and    *)
(* every stored condition is satisfied by the event.  When the signature   *)
(* verifies and a condition is not satisfied, the result is                *)
(* ConditionsValidation of the violation of the first unsatisfied          *)
(* condition in stored order.                                              *)
(***************************************************************************)
C3_AllOrNothing ==
    call.op = "validate" =>
        /\ call.out.ok <=>
              /\ SignatureVerifies(tag, call.delegatee_pubkey)
              /\ Unsatisfied(StoredConditions(tag), call.ep) = {}
        /\ (/\ SignatureVerifies(tag, call.delegatee_pubkey)
            /\ Unsatisfied(StoredConditions(tag), call.ep) # {})
           => call.out = Err(ConditionsValidation(
                              FirstViolation(StoredConditions(tag), call.ep)))

\* A verified signature and more than one unsatisfied condition.
C3_Witness ==
    /\ call.op = "validate"
    /\ SignatureVerifies(tag, call.delegatee_pubkey)
    /\ Cardinality(Unsatisfied(StoredConditions(tag), call.ep)) >= 2
    /\ ~call.out.ok

(***************************************************************************)
(* C4. Tag codec round trip: from_json of the as_json text of a tag made   *)
(* by create gives that tag (same delegator key, conditions string and     *)
(* signature); and for a wire string s of the compact 4-element form,      *)
(* as_json of the tag from_json(s) gives is s.                             *)
(***************************************************************************)
C4_CodecRoundTrip ==
    /\ (call.op = "from_json" /\ call.of # NoWire /\ call.of.by = "create")
       => call.out = Ok(call.of.of)
    /\ (call.op = "as_json" /\ origin.by = "from_json" /\ origin.s \in WellFormedWires)
       => call.out = origin.s

(***************************************************************************)
(* C5. Decoding stores the conditions text verbatim: when from_json        *)
(* succeeds, the conditions string of the tag is the third array element   *)
(* as given, so a signature made over that string passes the signature     *)
(* step of validate after decoding.                                        *)
(***************************************************************************)
C5_ConditionsVerbatim ==
    (call.op = "from_json" /\ call.out.ok) =>
        /\ call.out.v.conditions = WireElement(call.s, 3)
        /\ \A pk \in PublicKeys :
              (/\ call.out.v.signature.signer = call.out.v.delegator_pubkey
               /\ call.out.v.signature.digest.sha256
                      = "nostr:delegation:" \o hex_encode(pk) \o ":" \o WireElement(call.s, 3))
              => validate(call.out.v, pk, EventProperties_new(1, 75)) # InvalidSignature

(***************************************************************************)
(* C6. from_json rejects wrong shapes with DelegationTagParse and returns  *)
(* no tag: a JSON value that is no array, an array of a length other than  *)
(* 4, or one whose first element is not the string "delegation"; the       *)
(* other three elements are not examined.                                  *)
(***************************************************************************)
WrongShape(v) ==
    \/ v.t # "array"
    \/ Len(v.a) # 4
    \/ v.a[1] # JsonString("delegation")

C6_ShapeCall ==
    /\ call.op = "from_json"
    /\ serde_json_from_str(call.s).ok
    /\ WrongShape(WireValue(call.s))

C6_ShapeRejected ==
    C6_ShapeCall =>
        /\ call.out = Err(DelegationTagParse)
        /\ call.of = NoWire => tag = NoTag

\* Four elements, the first one no string, the second one no key.
C6_Witness ==
    /\ C6_ShapeCall
    /\ WireValue(call.s).t = "array"
    /\ Len(WireValue(call.s).a) = 4
    /\ WireValue(call.s).a[1].t # "string"
    /\ ~PublicKey_try_from_hex_string(WireElement(call.s, 2)).ok
    /\ call.out = Err(DelegationTagParse)

(***************************************************************************)
(* C7. Conditions::evaluate is fail-fast in stored order: it returns Ok    *)
(* iff every condition is satisfied, and otherwise exactly the violation   *)
(* of the unsatisfied condition of lowest index.                           *)
(***************************************************************************)
C7_FailFast ==
    call.op = "Conditions::evaluate" =>
        IF Unsatisfied(call.self.cond, call.ep) = {}
        THEN call.out = Ok(Unit)
        ELSE call.out = Err(FirstViolation(call.self.cond, call.ep))

\* "kind=3&kind=4" against kind 3: InvalidKind, from the second condition;
\* and a later unsatisfied condition of another kind does not show.
C7_Witness ==
    /\ call.op = "Conditions::evaluate"
    /\ call.self.cond = <<Kind(3), Kind(4), CreatedBefore(0)>>
    /\ call.ep.kind = 3
    /\ call.out = Err("InvalidKind")

(***************************************************************************)
(* C8. The reference case "kind=1&created_at>100&created_at<50" against    *)
(* EventProperties(kind=1, created_time=75).  As the specification has     *)
(* it, the evaluation fails with CreatedTooLate.                           *)
(***************************************************************************)
C8_ReferenceCall ==
    /\ call.op = "Conditions::from_str.evaluate"
    /\ call.s = "kind=1&created_at>100&created_at<50"
    /\ call.ep = EventProperties_new(1, 75)

C8_Original ==
    C8_ReferenceCall => call.out = Err(ConditionsValidation("CreatedTooLate"))

\* C8 as amended: the evaluation fails with CreatedTooEarly, the violation
\* of created_at>100, which comes before created_at<50.
C8_Amended ==
    C8_ReferenceCall => call.out = Err(ConditionsValidation("CreatedTooEarly"))

C8_Witness == C8_ReferenceCall /\ ~call.out.ok

(***************************************************************************)
(* C9. Condition::evaluate: Kind(k) yields InvalidKind unless the kinds    *)
(* are equal; CreatedBefore(t) yields CreatedTooLate unless created_time   *)
(* < t; CreatedAfter(t) yields CreatedTooEarly unless created_time > t;    *)
(* so CreatedBefore(0) and CreatedAfter(U64_MAX) are unsatisfiable; and no *)
(* other error is produced.                                                *)
(***************************************************************************)
C9_SingleCondition ==
    call.op = "Condition::evaluate" =>
        LET c == call.self
            ep == call.ep
        IN /\ c.variant = "Kind" =>
                call.out = (IF ep.kind = c.n THEN Ok(Unit) ELSE Err("InvalidKind"))
           /\ c.variant = "CreatedBefore" =>
                call.out = (IF ep.created_time < c.n THEN Ok(Unit)
                            ELSE Err("CreatedTooLate"))
           /\ c.variant = "CreatedAfter" =>
                call.out = (IF ep.created_time > c.n THEN Ok(Unit)
                            ELSE Err("CreatedTooEarly"))
           /\ c = CreatedBefore(0) => ~call.out.ok
           /\ c = CreatedAfter(U64_MAX) => ~call.out.ok
           /\ ~call.out.ok =>
                call.out.err \in {"InvalidKind", "CreatedTooLate", "CreatedTooEarly"}

\* created_time equal to the bound, at the end of the range.
C9_Witness ==
    /\ call.op = "Condition::evaluate"
    /\ call.self = CreatedAfter(U64_MAX)
    /\ call.ep.created_time = U64_MAX
    /\ call.out = Err("CreatedTooEarly")

(***************************************************************************)
(* C10. Conditions::from_str(x.to_string()) succeeds and yields x: the     *)
(* same length, order, variants and bounds, duplicates and contradictory   *)
(* conditions kept; to_string writes one segment for each condition.       *)
(***************************************************************************)
C10_StructureRoundTrip ==
    call.op = "Conditions::from_str(to_string)" =>
        /\ call.out = Ok(call.self)
        /\ Len(call.self.cond) > 0 =>
                Len(split(call.s, "&")) = Len(call.self.cond)

C10_Witness ==
    /\ call.op = "Conditions::from_str(to_string)"
    /\ call.self.cond = <<Kind(3), Kind(4), Kind(3)>>
    /\ call.out.ok
    /\ call.out.v.cond = <<Kind(3), Kind(4), Kind(3)>>

(***************************************************************************)
(* The grammar of conditions texts, stated apart from the parser:          *)
(*   conditions := "" | condition ("&" condition)*                         *)
(*   condition  := "kind=" uint | "created_at<" uint | "created_at>" uint  *)
(*   uint       := digit+, base 10, fits u64                               *)
(***************************************************************************)
IsDigits(t) == t # "" /\ \A i \in 1..Len(t) : IsDecDigit(CharAt(t, i))

RECURSIVE DecValue(_)
DecValue(t) ==
    IF t = "" THEN 0
    ELSE 10 * DecValue(TakeFirst(t, Len(t) - 1)) + DecDigitValue(CharAt(t, Len(t)))

IsUint(t) == IsDigits(t) /\ DecValue(t) <= U64_MAX

\* The decimal form with no leading zero: "0", or a first digit that is not 0.
IsPlainUint(t) == IsUint(t) /\ (Len(t) = 1 \/ CharAt(t, 1) # "0")

Prefixes == {"kind=", "created_at<", "created_at>"}
HasPrefix(seg) == \E p \in Prefixes : starts_with(seg, p)
IsCondition(seg) == \E p \in Prefixes : starts_with(seg, p) /\ IsUint(strip_prefix(seg, p))
IsPlainCondition(seg) ==
    \E p \in Prefixes : starts_with(seg, p) /\ IsPlainUint(strip_prefix(seg, p))

\* The segments of s between its "&": the places of the separators, with
\* one before the text and one after it, and the text between neighbours.
Separators(s) == {0, Len(s) + 1} \cup {i \in 1..Len(s) : CharAt(s, i) = "&"}
SegmentAfter(s, a) ==
    SubSeq(s, a + 1, (CHOOSE b \in Separators(s) :
                          b > a /\ \A c \in Separators(s) : c > a => b <= c) - 1)
Segments(s) == {SegmentAfter(s, a) : a \in Separators(s) \ {Len(s) + 1}}

IsConditionsText(s) == s = "" \/ \A seg \in Segments(s) : IsCondition(seg)
IsPlainConditionsText(s) == s = "" \/ \A seg \in Segments(s) : IsPlainCondition(seg)

(***************************************************************************)
(* C11. Text round trip: for every conditions text s of the grammar,       *)
(* Conditions::from_str(s).to_string() is s character for character.       *)
(* As amended: for every such s whose numbers have no leading zero.        *)
(***************************************************************************)
C11_RoundTripOf(s) ==
    /\ call.out.ok
    /\ Conditions_to_string(call.out.v) = s

C11_Original ==
    (call.op = "Conditions::from_str" /\ IsConditionsText(call.s))
        => C11_RoundTripOf(call.s)

C11_Amended ==
    (call.op = "Conditions::from_str" /\ IsPlainConditionsText(call.s))
        => C11_RoundTripOf(call.s)

\* Two conditions, the second one of the greatest bound.
C11_Witness ==
    /\ call.op = "Conditions::from_str"
    /\ call.s = "created_at>100&kind=" \o u64_to_string(U64_MAX)
    /\ IsPlainConditionsText(call.s)
    /\ C11_RoundTripOf(call.s)

(***************************************************************************)
(* C12. Parse errors: a segment with none of the three prefixes (also the  *)
(* empty one of a leading, trailing or doubled "&") gives                  *)
(* ConditionsParseInvalidCondition; a segment with a prefix and a suffix   *)
(* that is empty, not numeric or above 2^64-1 gives                        *)
(* ConditionsParseNumeric; Conditions::from_str returns the error of the   *)
(* leftmost bad segment and never a partial set.                           *)
(***************************************************************************)
SuffixOf(seg) == strip_prefix(seg, CHOOSE p \in Prefixes : starts_with(seg, p))
IsBadSegment(seg) == ~HasPrefix(seg) \/ ~IsUint(SuffixOf(seg))
ErrorKindOf(seg) ==
    IF ~HasPrefix(seg) THEN "ConditionsParseInvalidCondition"
    ELSE "ConditionsParseNumeric"

\* The separators that bad segments follow, and the leftmost bad segment.
BadStarts(s) == {a \in Separators(s) \ {Len(s) + 1} : IsBadSegment(SegmentAfter(s, a))}
LeftmostBad(s) ==
    SegmentAfter(s, CHOOSE a \in BadStarts(s) : \A b \in BadStarts(s) : a <= b)

C12_ParseErrors ==
    (call.op = "Conditions::from_str" /\ call.s # "" /\ BadStarts(call.s) # {}) =>
        /\ ~call.out.ok
        /\ call.out.err.kind = ErrorKindOf(LeftmostBad(call.s))

(***************************************************************************)
(* C13. Empty conditions: Conditions::from_str("") succeeds with the empty *)
(* sequence, whose to_string is "" and whose evaluate is Ok for every      *)
(* event; so a tag with empty conditions and a valid signature validates   *)
(* for every event kind and creation time.                                 *)
(***************************************************************************)
C13_EmptyConditions ==
    /\ (call.op = "create" /\ call.conditions_string = "" /\ call.signer_ok)
       => (call.out.ok /\ call.out.v.conditions = "")
    /\ (call.op = "from_json" /\ call.out.ok /\ WireElement(call.s, 3) = "")
       => call.out.v.conditions = ""
    /\ (/\ call.op = "validate"
        /\ tag.conditions = ""
        /\ SignatureVerifies(tag, call.delegatee_pubkey))
       => call.out = Ok(Unit)

\* A tag made by create with the empty text, validated against an event of
\* the greatest creation time.
C13_Witness ==
    /\ call.op = "validate"
    /\ origin.by = "create"
    /\ origin.s = ""
    /\ tag.conditions = ""
    /\ SignatureVerifies(tag, call.delegatee_pubkey)
    /\ call.ep.created_time = U64_MAX
    /\ call.out = Ok(Unit)

(***************************************************************************)
(* C14. The parser accepts only texts of the grammar: every text           *)
(* Condition::from_str accepts is one of the three prefixes followed by    *)
(* one or more digits and nothing else (no sign, no whitespace), so every  *)
(* text Conditions::from_str accepts is of conditions := "" | condition    *)
(* ("&" condition)*.                                                       *)
(***************************************************************************)
C14_OnlyGrammar ==
    (call.op = "Conditions::from_str" /\ call.out.ok) =>
        /\ IsConditionsText(call.s)
        /\ call.s # "" =>
              \A seg \in Segments(call.s) :
                  HasPrefix(seg) /\ IsDigits(SuffixOf(seg))

(***************************************************************************)
(* C15. from_json enforces well-formed elements: for a 4-element array     *)
(* starting with "delegation", decoding returns an error and no tag        *)
(* whenever the second element is not a valid public key hex string, the   *)
(* third is not a JSON string holding a valid conditions text, or the      *)
(* fourth is not a valid signature hex string; a non-string third element  *)
(* (number, null, array, object) is rejected, not decoded as a tag with    *)
(* empty conditions.                                                       *)
(***************************************************************************)
C15_ElementCall ==
    /\ call.op = "from_json"
    /\ serde_json_from_str(call.s).ok
    /\ ~WrongShape(WireValue(call.s))

IsKeyElement(v) == v.t = "string" /\ PublicKey_try_from_hex_string(v.s).ok
IsConditionsElement(v) == v.t = "string" /\ IsConditionsText(v.s)
IsSignatureElement(v) == v.t = "string" /\ Signature_try_from_hex_string(v.s).ok

C15_ElementsEnforced ==
    C15_ElementCall =>
        /\ (\/ ~IsKeyElement(WireValue(call.s).a[2])
            \/ ~IsConditionsElement(WireValue(call.s).a[3])
            \/ ~IsSignatureElement(WireValue(call.s).a[4])) => ~call.out.ok
        /\ WireValue(call.s).a[3].t # "string" => ~call.out.ok

(***************************************************************************)
(* C16. Canonical form of stored conditions: the conditions string c of    *)
(* every tag obtained through create or from_json parses, and              *)
(* Conditions::from_str(c).to_string() = c; so the re-parse inside         *)
(* validate never fails for such a tag, and validate returns Ok or a       *)
(* ConditionsValidation error only.                                        *)
(***************************************************************************)
IsCanonical(c) ==
    /\ Conditions_from_str(c).ok
    /\ Conditions_to_string(Conditions_from_str(c).v) = c

C16_StoredCanonical ==
    /\ tag # NoTag => IsCanonical(tag.conditions)
    /\ (call.op \in {"create", "from_json"} /\ call.out.ok) =>
           IsCanonical(call.out.v.conditions)
    /\ call.op = "validate" =>
           \/ call.out = Ok(Unit)
           \/ ~call.out.ok /\ call.out.err.kind = "ConditionsValidation"
                           /\ call.out.err.detail \in ValidationError

C16_Witness ==
    /\ call.op = "validate"
    /\ origin.by = "from_json"
    /\ WireElement(origin.s, 3) = "kind=01&created_at>050"
    /\ tag.conditions = "kind=1&created_at>50"
    /\ IsCanonical(tag.conditions)
    /\ call.out = InvalidSignature

(***************************************************************************)
(* C17. Step order of create: the conditions text is parsed before any     *)
(* signing is attempted.  For a conditions text the parser rejects, create *)
(* returns the parse error (ConditionsParseInvalidCondition or             *)
(* ConditionsParseNumeric) whatever the signer would do, and never         *)
(* SigningError; SigningError is returned only for a text that parses and  *)
(* whose signing fails.                                                    *)
(***************************************************************************)
ConditionsParseErrors == {"ConditionsParseInvalidCondition", "ConditionsParseNumeric"}

C17_ParseBeforeSign ==
    call.op = "create" =>
        /\ ~Conditions_from_str(call.conditions_string).ok =>
               /\ ~call.out.ok
               /\ call.out.err.kind \in ConditionsParseErrors
               /\ call.out = Conditions_from_str(call.conditions_string)
        /\ (~call.out.ok /\ call.out.err.kind = "SigningError") =>
               /\ Conditions_from_str(call.conditions_string).ok
               /\ ~call.signer_ok

=============================================================================
